---- MODULE Spec2Model ----
(***************************************************************************)
(* State-machine model of the date-picker engine `useDatePicker`           *)
(* (src/src/components/date-picker/date-picker.styles.ts) together with    *)
(* the controllable value store `useControllableState`                     *)
(* (src/unnamed/part_002).                                                 *)
(*                                                                         *)
(* A JavaScript Date is a record [k, day, tod]: k = "ok" for a valid date  *)
(* (day = days since 1970-01-01 in local wall-clock time, tod = minutes    *)
(* since local midnight), k = "nan" for an Invalid Date, k = "null" for    *)
(* null / undefined.  One step of the model is one event handler followed  *)
(* by the re-render and the effects it triggers.                           *)
(***************************************************************************)
EXTENDS Integers, Sequences, FiniteSets, TLC

VARIABLES
    props,            \* the construction-time configuration (never changes)
    value,            \* current Selection (useControllableState, line 752)
    time,             \* current TimeOfDay string (line 776)
    isOpen,           \* disclosure.open (line 805)
    view,             \* ViewDate state (line 765)
    lastHighlighted,  \* FocusedDate state (line 766)
    focusedDateRef,   \* focusedDateRef.current (line 741)
    focus,            \* the element that holds DOM focus
    notes,            \* callbacks and focus() calls made by the last step, in order
    last,             \* the last operation, its input and the state it started in
    moves,            \* how many navigation and keyboard steps were taken
    rendered          \* what the render committed before the last step's effects showed

vars == <<props, value, time, isOpen, view, lastHighlighted, focusedDateRef,
          focus, notes, last, moves, rendered>>

---------------------------------------------------------------------------
(* Bounds of the model *)

\* number of consecutive calendar days offered to selectDate
MaxDays == 3

\* number of navigation and keyboard steps of one behaviour
MaxMoves == 2

---------------------------------------------------------------------------
(* Dates *)

MinutesPerDay == 24 * 60

Null == [k |-> "null", day |-> 0, tod |-> 0]
Inv == [k |-> "nan", day |-> 0, tod |-> 0]
Dt(d, t) == [k |-> "ok", day |-> d, tod |-> t]

\* Date.prototype.getTime of a valid date, in minutes
getTime(a) == a.day * MinutesPerDay + a.tod

\* a < b on Dates: false whenever one side is an Invalid Date (NaN)
DateLt(a, b) == a.k = "ok" /\ b.k = "ok" /\ getTime(a) < getTime(b)

\* Calendar arithmetic of Date, as ECMAScript defines it (DayFromYear,
\* YearFromTime, MonthFromTime, DateFromTime), on day numbers.
IsLeap(y) == (y % 4 = 0 /\ y % 100 # 0) \/ y % 400 = 0

\* day number of 1 January of year y
DayFromYear(y) ==
    365 * (y - 1970) + ((y - 1969) \div 4) - ((y - 1901) \div 100) + ((y - 1601) \div 400)

\* the years the model's dates lie in
Years == 2016 .. 2032

\* days of the year before month m (0-based; m = 12 gives the year's length)
CumDays(y, m) ==
    <<0, 31, 59, 90, 120, 151, 181, 212, 243, 273, 304, 334, 365>>[m + 1]
        + (IF m >= 2 /\ IsLeap(y) THEN 1 ELSE 0)

YearFromDay(z) == CHOOSE y \in Years : DayFromYear(y) <= z /\ z < DayFromYear(y + 1)

MonthFromDay(z) ==
    LET y == YearFromDay(z)
        dayInYear == z - DayFromYear(y)
    IN  CHOOSE m \in 0..11 : CumDays(y, m) <= dayInYear /\ dayInYear < CumDays(y, m + 1)

DateFromDay(z) ==
    LET y == YearFromDay(z)
    IN  z - DayFromYear(y) - CumDays(y, MonthFromDay(z)) + 1

\* day number of `new Date(y, m, d)` (m 0-based and in 0..11)
DaysFromCivil(y, m, d) == DayFromYear(y) + CumDays(y, m) + d - 1

\* 2024-03-30, a Saturday: the days of the model straddle a month end
BaseDay == DaysFromCivil(2024, 2, 30)

Days == BaseDay .. (BaseDay + MaxDays - 1)

\* `new Date()`: the current day (2024-03-31)
Today == Dt(BaseDay + 1, 9 * 60)

\* the day numbers whose calendar fields the model reads, tabulated once
CalendarDays == DayFromYear(2017) .. (DayFromYear(2032) - 1)
Civil ==
    [z \in CalendarDays |->
        [y |-> YearFromDay(z), m |-> MonthFromDay(z), d |-> DateFromDay(z)]]

getFullYear(a) == Civil[a.day].y
getMonth(a) == Civil[a.day].m
getDate(a) == Civil[a.day].d
\* 0 = Sunday; 1970-01-01 was a Thursday
getDay(a) == (a.day + 4) % 7

\* Date.prototype.setDate(n): day n counted from the first of the date's month
\* (n below 1 or past the month's end rolls into the neighbouring months)
setDate(a, n) ==
    [a EXCEPT !.day = DaysFromCivil(getFullYear(a), getMonth(a), 1) + n - 1]

\* Date.prototype.setMonth(mm): month mm of the date's year (mm outside 0..11
\* moves the year), with the date's day of the month counted from the first
\* of that month, so a day the month lacks rolls into the next month
setMonth(a, mm) ==
    [a EXCEPT !.day = DaysFromCivil(getFullYear(a) + (mm \div 12), mm % 12, 1)
                          + getDate(a) - 1]

\* Date.prototype.setFullYear(y)
setFullYear(a, y) ==
    [a EXCEPT !.day = DaysFromCivil(y, getMonth(a), 1) + getDate(a) - 1]

addMonths(date, amount) == setMonth(date, getMonth(date) + amount)

normalizeDate(v) ==
    IF v.k = "null" THEN Null
    ELSE IF v.k = "nan" THEN Inv
    ELSE Dt(v.day, 0)

\* clampDate without its lower bound: a faulty variant the clamping property
\* must tell apart from clampDate
clampDateNoMin(date, min, max) ==
    IF max.k # "null" /\ DateLt(max, date) THEN max ELSE date

clampDate(date, min, max) ==
    LET next1 == IF min.k # "null" /\ DateLt(date, min) THEN min ELSE date
    IN  IF max.k # "null" /\ DateLt(max, next1) THEN max ELSE next1

areSameDay(a, b) ==
    /\ a.k = "ok"
    /\ b.k = "ok"
    /\ getFullYear(a) = getFullYear(b)
    /\ getMonth(a) = getMonth(b)
    /\ getDate(a) = getDate(b)

\* the number compareDay returns: [nan |-> TRUE] stands for NaN
compareDay(a, b) ==
    IF a.k # "ok" \/ b.k # "ok" THEN [nan |-> TRUE, n |-> 0]
    ELSE IF getFullYear(a) # getFullYear(b)
         THEN [nan |-> FALSE, n |-> getFullYear(a) - getFullYear(b)]
    ELSE IF getMonth(a) # getMonth(b)
         THEN [nan |-> FALSE, n |-> getMonth(a) - getMonth(b)]
    ELSE [nan |-> FALSE, n |-> getDate(a) - getDate(b)]

---------------------------------------------------------------------------
(* Selections and time strings *)

\* DatePickerValue: null, a single Date, or a range {start, end}
VNull == [shape |-> "null", start |-> Null, end |-> Null]
VDate(d) == [shape |-> "date", start |-> d, end |-> Null]
VRange(s, e) == [shape |-> "range", start |-> s, end |-> e]

isDateRange(v) == v.shape = "range"

\* a time string: null, the empty string "", or "HH:MM"
TNull == [k |-> "null", h |-> 0, m |-> 0]
TEmpty == [k |-> "empty", h |-> 0, m |-> 0]
THM(h, m) == [k |-> "hm", h |-> h, m |-> m]

\* truthiness of `time` in `enableTimeSelection && time`
TimeTruthy(t) == t.k = "hm"

\* const [hours, minutes] = t.split(':'); d.setHours(Number(hours), Number(minutes), 0, 0)
\* "".split(':') is [""]: Number("") is 0 and Number(undefined) is NaN, which
\* makes the date an Invalid Date; an Invalid Date stays invalid.
setHours(d, t) ==
    IF d.k # "ok" THEN d
    ELSE IF t.k # "hm" THEN Inv
    ELSE Dt(d.day + ((t.h * 60 + t.m) \div MinutesPerDay), (t.h * 60 + t.m) % MinutesPerDay)

ensureRangeOrder(range, allowSame) ==
    IF range.shape # "range" THEN range
    ELSE IF range.start.k = "null" \/ range.end.k = "null" THEN range
    ELSE LET compare == compareDay(range.start, range.end)
         IN  IF ~compare.nan /\ compare.n = 0 /\ allowSame THEN range
             ELSE IF ~compare.nan /\ compare.n <= 0 THEN range
             ELSE VRange(range.end, range.start)

\* Object.is(previous, next) in the value store: every Date and every range the
\* engine passes to setValue is a fresh object, so only null is identical to null
ObjectIsValue(previous, next) == previous.shape = "null" /\ next.shape = "null"

\* the anchor the resync effect reads from a Selection (Null when there is none)
anchorOf(v) ==
    IF v.shape = "range" THEN (IF v.end.k # "null" THEN v.end ELSE v.start)
    ELSE IF v.shape = "date" THEN v.start
    ELSE Null

---------------------------------------------------------------------------
(* Configuration and initial state *)

\* the times of day a selected or bounding Date may carry on input
InputTods == {0, 10 * 60}

\* the strings the time input can deliver: "" (cleared) and "14:30"
TimeInputs == {TEmpty, THM(14, 30)}

\* minDate / maxDate when bounds are configured (both carry a time of day)
BoundMin == Dt(BaseDay + 1, 10 * 60)
BoundMax == Dt(BaseDay + MaxDays - 2, 10 * 60)

Configs ==
    [ isRange : BOOLEAN,
      closeOnSelect : BOOLEAN,
      openOnFocus : {TRUE},
      allowSameDateSelection : BOOLEAN,
      enableTimeSelection : BOOLEAN,
      minDate : {Null, BoundMin},
      maxDate : {Null, BoundMax},
      weekStartsOn : {0},
      unavailable : {{}},
      defaultVisibleDate : {Null},
      defaultTimeValue : {TNull},
      valueCtl : BOOLEAN,
      openCtl : BOOLEAN ]

\* the widget owns its Selection and its visibility (no `value`, no `isOpen` prop)
Uncontrolled(c) == ~c.valueCtl /\ ~c.openCtl

\* configurations that differ only in options the engine never reads are dropped
ConfigOk(c) ==
    /\ (c.minDate.k = "null") = (c.maxDate.k = "null")
    /\ (~c.isRange => c.allowSameDateSelection)
    /\ (~c.enableTimeSelection => c.defaultTimeValue = TNull)

\* one callback or focus() call: n names it; for a change notification v is the
\* Selection object as it is when the callback runs and w the same object when
\* the handler has returned; el is the element of a focus() call
Note(n, v, w, el) == [n |-> n, v |-> v, w |-> w, el |-> el]

\* what kind of Selection v is
kindOf(v) ==
    IF v.shape = "null" THEN "null"
    ELSE IF v.shape = "date" THEN "date"
    ELSE IF v.start.k = "null" /\ v.end.k = "null" THEN "empty"
    ELSE IF v.end.k = "null" THEN "startOnly"
    ELSE IF v.start.k = "null" THEN "endOnly"
    ELSE "complete"

Last(op, d, t, tm) ==
    [op |-> op, d |-> normalizeDate(d), t |-> t, tm |-> tm,
     wasOpen |-> isOpen, was |-> kindOf(value), n |-> 0]

Body == [el |-> "body", day |-> 0]
El(name) == [el |-> name, day |-> 0]
Cell(d) == [el |-> "day", day |-> d]

\* the state a render shows: the Selection, the view date whose grid the
\* weeks memo builds (lines 808-818) and the focusedDate (line 1216)
Snapshot(v, vw, hl) == [value |-> v, view |-> vw, focusedDate |-> hl]

Init ==
    /\ props \in {c \in Configs : ConfigOk(c) /\ Uncontrolled(c)}
    /\ value = VNull
    /\ time = (IF props.enableTimeSelection THEN props.defaultTimeValue ELSE TNull)
    /\ isOpen = FALSE
    /\ view = normalizeDate(Today)
    /\ lastHighlighted = normalizeDate(Today)
    /\ focusedDateRef = normalizeDate(Today)
    /\ focus = Body
    /\ notes = <<>>
    /\ last = [op |-> "init", d |-> Null, t |-> "", tm |-> TNull,
               wasOpen |-> FALSE, was |-> "null", n |-> 0]
    /\ moves = 0
    /\ rendered = Snapshot(value, view, lastHighlighted)

---------------------------------------------------------------------------
(* Rendering and effects *)

\* a faulty variant of gridStart: the week always starts on Sunday
gridStartSunday(viewDate, weekStartsOn) ==
    DaysFromCivil(getFullYear(viewDate), getMonth(viewDate), 1)
        - ((DaysFromCivil(getFullYear(viewDate), getMonth(viewDate), 1) + 4) % 7)

\* first cell of the 6 x 7 grid getMonthDays builds for the month of viewDate
gridStart(viewDate, weekStartsOn) ==
    LET firstOfMonth == DaysFromCivil(getFullYear(viewDate), getMonth(viewDate), 1)
        startDay == (firstOfMonth + 4) % 7
        diff == (startDay - weekStartsOn + 7) % 7
    IN  firstOfMonth - diff

\* a faulty variant of cellDisabled: the bounds are compared with their time
\* of day
cellDisabledByTime(d) ==
    \/ props.minDate.k # "null" /\ DateLt(Dt(d, 0), props.minDate)
    \/ props.maxDate.k # "null" /\ DateLt(props.maxDate, Dt(d, 0))
    \/ d \in props.unavailable

\* isDisabled of the grid cell of day d; props.unavailable is the set of days
\* the isDateUnavailable predicate holds of
cellDisabled(d) ==
    \/ props.minDate.k # "null" /\ DateLt(Dt(d, 0), normalizeDate(props.minDate))
    \/ props.maxDate.k # "null" /\ DateLt(normalizeDate(props.maxDate), Dt(d, 0))
    \/ d \in props.unavailable

\* a faulty variant of getMonthDays: every cell is flagged isCurrentMonth
getMonthDaysAllCurrent(viewDate, weekStartsOn) ==
    [weekIndex \in 1..6 |->
        [dayIndex \in 1..7 |->
            [date |-> Dt(gridStart(viewDate, weekStartsOn)
                             + (weekIndex - 1) * 7 + dayIndex - 1, 0),
             isCurrentMonth |-> TRUE,
             isDisabled |-> cellDisabled(gridStart(viewDate, weekStartsOn)
                                             + (weekIndex - 1) * 7 + dayIndex - 1)]]]

\* getMonthDays: six weeks of seven cells, each cell a day with its flags
getMonthDays(viewDate, weekStartsOn) ==
    LET startGrid == Dt(gridStart(viewDate, weekStartsOn), 0)
        cell(weekIndex, dayIndex) ==
            LET current == setDate(startGrid,
                                   getDate(startGrid) + weekIndex * 7 + dayIndex)
            IN  [date |-> current,
                 isCurrentMonth |-> getMonth(current) = getMonth(viewDate),
                 isDisabled |-> cellDisabled(current.day)]
    IN  [weekIndex \in 1..6 |-> [dayIndex \in 1..7 |-> cell(weekIndex - 1, dayIndex - 1)]]

\* the focus effect finds the cell `#${id}-day-${node.toISOString()}` in the
\* rendered grid and the cell can take focus
cellFocusable(node, viewDate) ==
    /\ node.k = "ok"
    /\ viewDate.k = "ok"
    /\ node.tod = 0
    /\ node.day >= gridStart(viewDate, props.weekStartsOn)
    /\ node.day <= gridStart(viewDate, props.weekStartsOn) + 41
    /\ ~cellDisabled(node.day)

\* The re-render after a handler and the effects it runs, given the Selection,
\* the visibility and the focusedDateRef the handler left (value', isOpen',
\* focusedDateRef'):
\*  - the resync effect (deps [value], lines 784-796) moves view and
\*    lastHighlighted to the anchor of the new Selection;
\*  - the focus effect (deps [isOpen, view, id], lines 1200-1206) focuses the cell
\*    of focusedDateRef, first in the grid rendered by the handler's own update
\*    and again in the grid of the resynced view; the cell's onFocus handler
\*    (line 1129) sets lastHighlighted to the cell's date.
\* The effects are useEffect callbacks: they run after the render of the
\* handler's own updates is committed, and `rendered` keeps what that render
\* showed.
\* hl1, vw1, f1 are lastHighlighted, view and the focused element as the handler
\* left them, ns the callbacks it made; vchg / vwchg tell whether it changed the
\* identity of value / view.
Render(hl1, vw1, f1, ns, vchg, vwchg) ==
    LET resync == vchg /\ anchorOf(value').k # "null"
        cell == Cell(focusedDateRef'.day)
        try1 == isOpen' /\ (isOpen' # isOpen \/ vwchg) /\ cellFocusable(focusedDateRef', vw1)
        try2 == isOpen' /\ resync /\ cellFocusable(focusedDateRef', view')
    IN  /\ view' = (IF resync THEN normalizeDate(anchorOf(value')) ELSE vw1)
        /\ focus' = (IF try1 \/ try2 THEN cell ELSE f1)
        /\ lastHighlighted' =
              (IF (try1 \/ try2) /\ f1 # cell THEN Dt(focusedDateRef'.day, 0)
               ELSE IF resync THEN normalizeDate(anchorOf(value'))
               ELSE hl1)
        /\ notes' = ns \o (IF try1 THEN <<Note("focus", VNull, VNull, "day")>> ELSE <<>>)
                       \o (IF try2 THEN <<Note("focus", VNull, VNull, "day")>> ELSE <<>>)
        /\ rendered' = Snapshot(value', vw1, hl1)

---------------------------------------------------------------------------
(* The controllable stores *)

\* a faulty variant of storeValue: a controlled store takes the proposed value
storeValueAlways(next) == next

\* useControllableState.setValue on the Selection store
storeValue(next) == IF props.valueCtl THEN value ELSE next
changeNotes(payload, next) ==
    IF ObjectIsValue(value, next) THEN <<>> ELSE <<Note("change", payload, next, "")>>
valueChanges(next) == ~props.valueCtl /\ ~ObjectIsValue(value, next)

\* a faulty variant of openState: onOpen sets the flag of a controlled
\* disclosure too
openStateAlways == TRUE

\* useDisclosure: onOpen / onClose set the flag when uncontrolled and always call back
openState == IF props.openCtl THEN isOpen ELSE TRUE
closeState == IF props.openCtl THEN isOpen ELSE FALSE
openNotes == <<Note("open", VNull, VNull, "")>>
closeNotes == <<Note("close", VNull, VNull, "")>>

---------------------------------------------------------------------------
(* selectDate *)

\* the clamped, midnight-normalized day selectDate works with (lines 854-860)
selectDateDate(day) ==
    normalizeDate(clampDate(day, normalizeDate(props.minDate), normalizeDate(props.maxDate)))

\* `enableTimeSelection && time`
timeApplies == props.enableTimeSelection /\ TimeTruthy(time)

\* the paths of selectDate without the restart of a complete range: a faulty
\* variant the restart property must tell apart from selectDateBranch
selectDateBranchNoRestart ==
    IF ~props.isRange THEN "single"
    ELSE IF ~isDateRange(value) THEN "restart"
    ELSE IF value.start.k = "null" THEN "noStart"
    ELSE "complete"

\* which path of selectDate runs
selectDateBranch ==
    IF ~props.isRange THEN "single"
    ELSE IF ~isDateRange(value) THEN "restart"
    ELSE IF value.start.k # "null" /\ value.end.k # "null" THEN "restart"
    ELSE IF value.start.k = "null" THEN "noStart"
    ELSE "complete"

\* the object selectDate hands to setValue, as it is at the call
selectDatePayload(day) ==
    CASE selectDateBranch = "single" ->
            VDate(IF timeApplies THEN setHours(selectDateDate(day), time)
                  ELSE selectDateDate(day))
      [] selectDateBranch = "restart" -> VRange(selectDateDate(day), Null)
      [] selectDateBranch = "noStart" -> VRange(selectDateDate(day), Null)
      [] OTHER ->
            ensureRangeOrder(VRange(value.start, selectDateDate(day)),
                             props.allowSameDateSelection)

\* a faulty variant of selectDateNext: a day the availability predicate holds
\* of is not committed
selectDateNextIfAvailable(day) ==
    IF selectDateDate(day).day \in props.unavailable THEN value
    ELSE selectDatePayload(day)

\* the same object when the handler returns: the range paths call setHours on
\* the stored dates after setValue (lines 869-872 and 884-887)
selectDateNext(day) ==
    LET p == selectDatePayload(day)
    IN  CASE selectDateBranch = "restart" /\ timeApplies ->
                VRange(setHours(p.start, time), Null)
          [] selectDateBranch = "complete" /\ timeApplies ->
                VRange(p.start, setHours(p.end, time))
          [] OTHER -> p

\* faulty variants of selectDateCloses: close() only on the range path, and
\* close() on every path
selectDateClosesRangeOnly == props.closeOnSelect /\ selectDateBranch = "complete"
selectDateClosesAlways == props.closeOnSelect

\* whether selectDate calls close()
selectDateCloses ==
    props.closeOnSelect /\ selectDateBranch \in {"single", "complete"}

\* the Date given to setLastHighlighted (line 862), as it is when the handler
\* returns: it is the object `date`, which the setHours calls mutate when it
\* is the Date they reach; next is the Selection the handler stored
selectDateHighlighted(day, next) ==
    CASE selectDateBranch = "single" -> next.start
      [] selectDateBranch = "restart" -> next.start
      [] selectDateBranch = "complete" /\ normalizeDate(next.end) = selectDateDate(day)
            /\ next.start = value.start -> next.end
      [] OTHER -> selectDateDate(day)

\* the Selection object selectDate started from, when the handler returns: on
\* the completing path ordered.end is the Date current.start when the dates
\* were swapped, and setHours (line 886) changes that Date in place
selectDateAliased(day) ==
    IF /\ selectDateBranch = "complete"
       /\ timeApplies
       /\ selectDatePayload(day) # VRange(value.start, selectDateDate(day))
    THEN VRange(setHours(value.start, time), value.end)
    ELSE value

\* selectDate(day) followed by the re-render it causes
selectDate(day) ==
    /\ value' = (IF props.valueCtl THEN selectDateAliased(day)
                 ELSE storeValue(selectDateNext(day)))
    /\ time' = time
    /\ isOpen' = (IF selectDateCloses THEN closeState ELSE isOpen)
    /\ focusedDateRef' = focusedDateRef
    /\ Render(selectDateHighlighted(day, selectDateNext(day)), view, focus,
              changeNotes(selectDatePayload(day), selectDateNext(day))
                  \o (IF selectDateCloses THEN closeNotes ELSE <<>>),
              valueChanges(selectDateNext(day)), FALSE)
    /\ UNCHANGED props

\* a caller (a day cell's onClick, line 1127, or the API) invokes selectDate
SelectDate(day) ==
    /\ selectDate(day)
    /\ last' = Last("selectDay", day, "", TNull)
    /\ moves' = moves

---------------------------------------------------------------------------
(* clear *)

\* a faulty variant of clearValue: null in both modes
clearValueNull == VNull

clearValue == IF props.isRange THEN VRange(Null, Null) ELSE VNull

Clear ==
    /\ value' = storeValue(clearValue)
    /\ time' = time
    /\ isOpen' = isOpen
    /\ focusedDateRef' = focusedDateRef
    /\ last' = Last("clear", Null, "", TNull)
    /\ Render(lastHighlighted, view, focus, changeNotes(clearValue, clearValue),
              valueChanges(clearValue), FALSE)
    /\ UNCHANGED <<props, moves>>

---------------------------------------------------------------------------
(* The time input (getTimeInputProps().onChange) *)

\* whether the handler reaches a setValue call
timeInputStores ==
    \/ props.isRange /\ isDateRange(value)
    \/ value.shape = "date"

\* the Selection the handler passes to setValue
timeInputValue(next) ==
    IF props.isRange /\ isDateRange(value)
    THEN VRange(setHours(value.start, next),
                IF value.end.k # "null" THEN setHours(value.end, next)
                ELSE setHours(value.start, next))
    ELSE VDate(setHours(value.start, next))

\* the string the controlled <input type="time"> shows: `time ?? ''` (line 1174)
timeInputShown == IF time.k = "null" THEN TEmpty ELSE time

\* a change event of the time input: it fires when the user's edit leaves the
\* input with a string other than the one it shows
TimeInputChange(next) ==
    /\ props.enableTimeSelection
    /\ next # timeInputShown
    /\ value' = (IF timeInputStores THEN storeValue(timeInputValue(next)) ELSE value)
    /\ time' = next
    /\ isOpen' = isOpen
    /\ focusedDateRef' = focusedDateRef
    /\ last' = Last("setTime", Null, "", next)
    /\ Render(lastHighlighted, view, focus,
              (IF time # next THEN <<Note("time", VNull, VNull, "")>> ELSE <<>>)
                  \o (IF timeInputStores
                      THEN changeNotes(timeInputValue(next), timeInputValue(next))
                      ELSE <<>>),
              timeInputStores /\ valueChanges(timeInputValue(next)), FALSE)
    /\ UNCHANGED <<props, moves>>

---------------------------------------------------------------------------
(* Disclosure: open, close, toggle and the slots that call them *)

Open ==
    /\ isOpen' = openState
    /\ last' = Last("open", Null, "", TNull)
    /\ UNCHANGED <<props, moves, value, time, focusedDateRef>>
    /\ Render(lastHighlighted, view, focus, openNotes, FALSE, FALSE)

Close ==
    /\ isOpen' = closeState
    /\ last' = Last("close", Null, "", TNull)
    /\ UNCHANGED <<props, moves, value, time, focusedDateRef>>
    /\ Render(lastHighlighted, view, focus, closeNotes, FALSE, FALSE)

\* onToggle, also the trigger's onClick (line 1082)
Toggle ==
    /\ isOpen' = (IF isOpen THEN closeState ELSE openState)
    /\ last' = Last("toggle", Null, "", TNull)
    /\ UNCHANGED <<props, moves, value, time, focusedDateRef>>
    /\ Render(lastHighlighted, view, focus,
              IF isOpen THEN closeNotes ELSE openNotes, FALSE, FALSE)

\* the control surface's onClick (lines 1043-1049)
ControlClick ==
    /\ isOpen' = (IF isOpen THEN closeState ELSE openState)
    /\ last' = Last("controlClick", Null, "", TNull)
    /\ UNCHANGED <<props, moves, value, time, focusedDateRef>>
    /\ Render(lastHighlighted, view, focus,
              IF isOpen THEN closeNotes ELSE openNotes, FALSE, FALSE)

\* the text input receives focus (lines 1065-1067)
InputFocus ==
    /\ focus # El("input")
    /\ isOpen' = (IF props.openOnFocus THEN openState ELSE isOpen)
    /\ last' = Last("inputFocus", Null, "", TNull)
    /\ UNCHANGED <<props, moves, value, time, focusedDateRef>>
    /\ Render(lastHighlighted, view, El("input"),
              IF props.openOnFocus THEN openNotes ELSE <<>>, FALSE, FALSE)

\* the places a pointer press can land
Targets == {"content", "trigger", "outside"}

\* a faulty variant of outsideClickCloses: the trigger is not exempt
outsideClickClosesNoTrigger(target) ==
    /\ isOpen
    /\ target # "content"

\* useOutsideClick's document listener, registered while isOpen, and its handler:
\* TRUE when the press on `target` reaches close()
outsideClickCloses(target) ==
    /\ isOpen
    /\ target # "content"
    /\ target # "trigger"

\* a faulty variant of PointerDown: a dismissal also resets the Selection
PointerDownClears(target) ==
    /\ target = "content" => isOpen
    /\ isOpen' = (IF outsideClickCloses(target) THEN closeState ELSE isOpen)
    /\ value' = (IF outsideClickCloses(target) THEN clearValue ELSE value)
    /\ last' = Last("pointerDown", Null, target, TNull)
    /\ UNCHANGED <<props, moves, time, focusedDateRef>>
    /\ Render(lastHighlighted, view, focus,
              IF outsideClickCloses(target) THEN closeNotes ELSE <<>>, FALSE, FALSE)

\* a pointerdown on `target` (the content panel exists only while open)
PointerDown(target) ==
    /\ target = "content" => isOpen
    /\ isOpen' = (IF outsideClickCloses(target) THEN closeState ELSE isOpen)
    /\ last' = Last("pointerDown", Null, target, TNull)
    /\ UNCHANGED <<props, moves, value, time, focusedDateRef>>
    /\ Render(lastHighlighted, view, focus,
              IF outsideClickCloses(target) THEN closeNotes ELSE <<>>, FALSE, FALSE)

\* the keydown listener on the content node, attached while isOpen: TRUE when an
\* Escape key press is handled by it
escapeHandled(where) == isOpen /\ where = "content"

\* a faulty variant of escapeFocus: focus goes to the text input
escapeFocusInput == El("input")

\* the element the Escape listener focuses after close()
escapeFocus == El("trigger")

\* an Escape key press, inside the content panel or elsewhere
EscapeKeyDown(where) ==
    /\ where = "content" => isOpen
    /\ isOpen' = (IF escapeHandled(where) THEN closeState ELSE isOpen)
    /\ last' = Last("escape", Null, where, TNull)
    /\ UNCHANGED <<props, moves, value, time, focusedDateRef>>
    /\ Render(lastHighlighted, view,
              IF escapeHandled(where) THEN escapeFocus ELSE focus,
              IF escapeHandled(where)
                  THEN closeNotes \o <<Note("focus", VNull, VNull, escapeFocus.el)>>
                  ELSE <<>>,
              FALSE, FALSE)

---------------------------------------------------------------------------
(* Month and year navigation *)

\* The header's buttons and selects (rendered inside the content panel, so
\* while open) call these; setView gets a new Date, the grid is rebuilt and the
\* focus effect runs
GotoPreviousMonth ==
    /\ isOpen
    /\ moves < MaxMoves
    /\ moves' = moves + 1
    /\ last' = Last("gotoPreviousMonth", Null, "", TNull)
    /\ UNCHANGED <<props, value, time, isOpen, focusedDateRef>>
    /\ Render(lastHighlighted, addMonths(view, -1), focus, <<>>, FALSE, TRUE)

GotoNextMonth ==
    /\ isOpen
    /\ moves < MaxMoves
    /\ moves' = moves + 1
    /\ last' = Last("gotoNextMonth", Null, "", TNull)
    /\ UNCHANGED <<props, value, time, isOpen, focusedDateRef>>
    /\ Render(lastHighlighted, addMonths(view, 1), focus, <<>>, FALSE, TRUE)

\* the month indexes and the years the header's selects deliver
MonthInputs == {1, 10}
YearInputs == {2025}

GotoMonth(month) ==
    /\ isOpen
    /\ moves < MaxMoves
    /\ moves' = moves + 1
    /\ last' = [Last("gotoMonth", Null, "", TNull) EXCEPT !.n = month]
    /\ UNCHANGED <<props, value, time, isOpen, focusedDateRef>>
    /\ Render(lastHighlighted, setMonth(view, month), focus, <<>>, FALSE, TRUE)

GotoYear(year) ==
    /\ isOpen
    /\ moves < MaxMoves
    /\ moves' = moves + 1
    /\ last' = [Last("gotoYear", Null, "", TNull) EXCEPT !.n = year]
    /\ UNCHANGED <<props, value, time, isOpen, focusedDateRef>>
    /\ Render(lastHighlighted, setFullYear(view, year), focus, <<>>, FALSE, TRUE)

---------------------------------------------------------------------------
(* The day cells' keyboard handler (handleKeyDown) *)

\* the movement keys, with and without Shift where the handler reads shiftKey
MoveKeys ==
    {[key |-> k, shiftKey |-> FALSE] :
        k \in {"ArrowRight", "ArrowLeft", "ArrowDown", "ArrowUp",
               "PageDown", "PageUp", "Home", "End"}}
    \cup {[key |-> k, shiftKey |-> TRUE] : k \in {"PageDown", "PageUp"}}

\* the name a key press is recorded under
keyName(event) == IF event.shiftKey THEN "Shift+" \o event.key ELSE event.key

\* a faulty variant of weekOffset: the week is taken to start on Sunday
weekOffsetSunday(day) == getDay(day)

\* position of `day` in its week: (day.getDay() - weekStartsOn + 7) % 7
weekOffset(day) == (getDay(day) - props.weekStartsOn + 7) % 7

\* a faulty variant of keyNext: an arrow key that would leave the month of
\* the day stays on the day, and the other keys do not move
keyNextWithinMonth(event, day) ==
    LET step == CASE event.key = "ArrowRight" -> 1
                  [] event.key = "ArrowLeft" -> -1
                  [] event.key = "ArrowDown" -> 7
                  [] event.key = "ArrowUp" -> -7
                  [] OTHER -> 0
        next == setDate(day, getDate(day) + step)
    IN  IF getMonth(next) = getMonth(day) THEN next ELSE day

\* the Date `next` the switch of handleKeyDown computes from the cell's day
keyNext(event, day) ==
    CASE event.key = "ArrowRight" -> setDate(day, getDate(day) + 1)
      [] event.key = "ArrowLeft" -> setDate(day, getDate(day) - 1)
      [] event.key = "ArrowDown" -> setDate(day, getDate(day) + 7)
      [] event.key = "ArrowUp" -> setDate(day, getDate(day) - 7)
      [] event.key = "PageDown" ->
            IF event.shiftKey THEN addMonths(day, -12) ELSE addMonths(day, 1)
      [] event.key = "PageUp" ->
            IF event.shiftKey THEN addMonths(day, 12) ELSE addMonths(day, -1)
      [] event.key = "Home" -> setDate(day, getDate(day) - weekOffset(day))
      [] event.key = "End" -> setDate(day, getDate(day) + (6 - weekOffset(day)))

\* a faulty variant of keyView: the view date always follows `next`
keyViewAlways(next) == normalizeDate(next)

\* the functional setView of lines 992-1002
keyView(next) ==
    IF \/ getMonth(normalizeDate(next)) # getMonth(view)
       \/ getFullYear(normalizeDate(next)) # getFullYear(view)
    THEN normalizeDate(next)
    ELSE view

\* a day cell holds DOM focus and can receive key events
dayFocused ==
    /\ isOpen
    /\ focus.el = "day"
    /\ cellFocusable(Dt(focus.day, 0), view)
\* a faulty variant of KeyDown: a movement key also selects the day it moves to
KeyDownSelects(event) ==
    /\ dayFocused
    /\ moves < MaxMoves
    /\ moves' = moves + 1
    /\ last' = Last("key", Dt(focus.day, 0), keyName(event), TNull)
    /\ selectDate(keyNext(event, Dt(focus.day, 0)))

\* a movement key pressed on the focused day cell
KeyDown(event) ==
    /\ dayFocused
    /\ moves < MaxMoves
    /\ moves' = moves + 1
    /\ last' = Last("key", Dt(focus.day, 0), keyName(event), TNull)
    /\ focusedDateRef' = normalizeDate(keyNext(event, Dt(focus.day, 0)))
    /\ UNCHANGED <<props, value, time, isOpen>>
    /\ Render(normalizeDate(keyNext(event, Dt(focus.day, 0))),
              keyView(keyNext(event, Dt(focus.day, 0))), focus, <<>>, FALSE,
              keyView(keyNext(event, Dt(focus.day, 0))) # view)

\* Enter or Space pressed on the focused day cell: selectDate(day)
KeySelect ==
    /\ dayFocused
    /\ moves < MaxMoves
    /\ moves' = moves + 1
    /\ last' = Last("selectDay", Dt(focus.day, 0), "Enter", TNull)
    /\ selectDate(Dt(focus.day, 0))

---------------------------------------------------------------------------
(* A controlled `value` prop *)

\* the Selections a parent supplies through the `value` prop
SuppliedValues ==
    {VNull, VDate(Dt(BaseDay, 0)), VDate(Dt(BaseDay + 1, 14 * 60 + 30)),
     VRange(Null, Null), VRange(Dt(BaseDay + 1, 0), Null),
     VRange(Dt(BaseDay, 0), Dt(BaseDay + 1, 14 * 60 + 30))}

\* a parent supplies single dates in single mode and ranges in range mode
suppliedFits(v) == v.shape = "null" \/ (v.shape = "range") = props.isRange

\* the parent re-renders the widget with another object as `value`: the store
\* mirrors it (part_002 lines 993-995), the resync effect runs
ValuePropUpdate(v) ==
    /\ props.valueCtl
    /\ suppliedFits(v)
    /\ ~ObjectIsValue(value, v)
    /\ value' = v
    /\ last' = Last("valueProp", Null, "", TNull)
    /\ UNCHANGED <<props, moves, time, isOpen, focusedDateRef>>
    /\ Render(lastHighlighted, view, focus, <<>>, TRUE, FALSE)

---------------------------------------------------------------------------

Next ==
    \/ \E d \in Days, t \in InputTods : SelectDate(Dt(d, t))
    \/ Clear
    \/ \E next \in TimeInputs : TimeInputChange(next)
    \/ Open
    \/ Close
    \/ Toggle
    \/ ControlClick
    \/ InputFocus
    \/ \E target \in Targets : PointerDown(target)
    \/ \E where \in {"content", "elsewhere"} : EscapeKeyDown(where)

Spec == Init /\ [][Next]_vars

\* Navigation: the widget opened on a configured visible date, with every first
\* day of the week, with and without bounds and unavailable days
VisibleDates ==
    {Null, Dt(DaysFromCivil(2024, 0, 31), 10 * 60), Dt(DaysFromCivil(2024, 1, 29), 0),
     Dt(DaysFromCivil(2024, 3, 1), 0), Dt(DaysFromCivil(2024, 11, 31), 0)}

NavMin == Dt(DaysFromCivil(2024, 0, 15), 10 * 60)
NavMax == Dt(DaysFromCivil(2025, 0, 15), 10 * 60)

NavConfigs ==
    [ isRange : {FALSE},
      closeOnSelect : {FALSE},
      openOnFocus : {TRUE},
      allowSameDateSelection : {TRUE},
      enableTimeSelection : {FALSE},
      minDate : {Null, NavMin},
      maxDate : {Null, NavMax},
      weekStartsOn : 0..6,
      unavailable : {{}, {DaysFromCivil(2024, 1, 1)}},
      defaultVisibleDate : VisibleDates,
      defaultTimeValue : {TNull},
      valueCtl : {FALSE},
      openCtl : {FALSE} ]

\* the configurations explored: bounds and unavailable days together, with the
\* week starting on Sunday; the later first days of the week with today visible
NavConfigOk(c) ==
    /\ (c.minDate.k = "null") = (c.maxDate.k = "null")
    /\ (c.minDate.k = "null") = (c.unavailable = {})
    /\ c.minDate.k # "null" => c.weekStartsOn = 0
    /\ c.weekStartsOn > 1 => c.defaultVisibleDate.k = "null"

\* `defaultVisibleDate ?? new Date()`
visibleDate(c) == IF c.defaultVisibleDate.k # "null" THEN c.defaultVisibleDate ELSE Today

InitNav ==
    /\ props \in {c \in NavConfigs : NavConfigOk(c)}
    /\ value = VNull
    /\ time = TNull
    /\ isOpen = FALSE
    /\ view = normalizeDate(visibleDate(props))
    /\ lastHighlighted = normalizeDate(visibleDate(props))
    /\ focusedDateRef = normalizeDate(visibleDate(props))
    /\ focus = Body
    /\ notes = <<>>
    /\ last = [op |-> "init", d |-> Null, t |-> "", tm |-> TNull,
               wasOpen |-> FALSE, was |-> "null", n |-> 0]
    /\ moves = 0
    /\ rendered = Snapshot(value, view, lastHighlighted)

NextNav ==
    \/ Open
    \/ GotoPreviousMonth
    \/ GotoNextMonth
    \/ \E month \in MonthInputs : GotoMonth(month)
    \/ \E year \in YearInputs : GotoYear(year)
    \/ \E event \in MoveKeys : KeyDown(event)
    \/ KeySelect

SpecNav == InitNav /\ [][NextNav]_vars

\* The widget with the `value` prop supplied or not: the configurations of the
\* value store
CtlConfigs ==
    {c \in Configs : /\ ConfigOk(c)
                     /\ ~c.openCtl
                     /\ c.closeOnSelect
                     /\ c.allowSameDateSelection
                     /\ c.minDate.k = "null"}

InitCtl ==
    /\ props \in CtlConfigs
    /\ value = VNull
    /\ time = (IF props.enableTimeSelection THEN props.defaultTimeValue ELSE TNull)
    /\ isOpen = FALSE
    /\ view = normalizeDate(Today)
    /\ lastHighlighted = normalizeDate(Today)
    /\ focusedDateRef = normalizeDate(Today)
    /\ focus = Body
    /\ notes = <<>>
    /\ last = [op |-> "init", d |-> Null, t |-> "", tm |-> TNull,
               wasOpen |-> FALSE, was |-> "null", n |-> 0]
    /\ moves = 0
    /\ rendered = Snapshot(value, view, lastHighlighted)

NextCtl ==
    \/ \E d \in Days, t \in InputTods : SelectDate(Dt(d, t))
    \/ Clear
    \/ \E next \in TimeInputs : TimeInputChange(next)
    \/ Open
    \/ Close
    \/ \E v \in SuppliedValues : ValuePropUpdate(v)

SpecCtl == InitCtl /\ [][NextCtl]_vars

---------------------------------------------------------------------------

(* Vocabulary of the properties *)

bounded == props.minDate.k # "null"

\* the calendar day a pick of day d is expected to store: d moved into
\* [minDate, maxDate] by day granularity
ExpectedDay(d) ==
    IF ~bounded THEN d
    ELSE IF d < props.minDate.day THEN props.minDate.day
    ELSE IF d > props.maxDate.day THEN props.maxDate.day
    ELSE d

\* the step just taken requested close / made some focus() call
ClosedRequested(ns) == \E i \in 1..Len(ns) : ns[i].n = "close"
FocusCalled(ns) == \E i \in 1..Len(ns) : ns[i].n = "focus"

\* the valid dates a Selection holds
StoredDates(v) == {x \in {v.start, v.end} : x.k = "ok"}

---------------------------------------------------------------------------
(* C1 *)

\* C1 (as claimed): in range mode, whenever the stored range has both start and
\* end, start is on or before end by day-granularity comparison; and the pick
\* that follows a first pick completes the range with the picked day in it.
C1_RangeOrdered ==
    props.isRange =>
        /\ kindOf(value) = "complete" =>
               /\ ~compareDay(value.start, value.end).nan
               /\ compareDay(value.start, value.end).n <= 0
        /\ (last.op = "selectDay" /\ last.was = "startOnly") =>
               /\ kindOf(value) = "complete"
               /\ \E x \in {value.start, value.end} :
                      x.k = "ok" /\ x.day = ExpectedDay(last.d.day)

\* the time input was emptied and the stored range holds two Invalid Dates
C1_Witness ==
    /\ props.isRange
    /\ last.op = "setTime"
    /\ last.tm = TEmpty
    /\ kindOf(value) = "complete"
    /\ value.start.k = "nan"
    /\ value.end.k = "nan"

---------------------------------------------------------------------------
(* C2 *)

\* C2 (as claimed): in range mode from start-only with start = d, picking d again
\* gives the complete range {d, d} when allowSameDateSelection is true, and when
\* it is false restarts the range: start-only with start = d, no close request.
C2_SameDayPolicy ==
    [][ ( /\ props.isRange
          /\ last'.op = "selectDay"
          /\ kindOf(value) = "startOnly"
          /\ value.start.k = "ok"
          /\ ExpectedDay(last'.d.day) = value.start.day )
        => IF props.allowSameDateSelection
           THEN /\ kindOf(value') = "complete"
                /\ value'.start.day = value.start.day
                /\ value'.end.day = value.start.day
           ELSE /\ kindOf(value') = "startOnly"
                /\ value'.start.day = value.start.day
                /\ ~ClosedRequested(notes') ]_vars

\* with same-day selection disallowed, the second pick of the start day
\* completed the range {d, d}
C2_Witness ==
    /\ props.isRange
    /\ ~props.allowSameDateSelection
    /\ last.op = "selectDay"
    /\ last.was = "startOnly"
    /\ kindOf(value) = "complete"
    /\ value.start.k = "ok"
    /\ value.end.k = "ok"
    /\ value.start.day = last.d.day
    /\ value.end.day = last.d.day

---------------------------------------------------------------------------
(* C3 *)

\* C3 (as claimed): in range mode a pick made while the Selection is empty or
\* complete stores {start: the picked day clamped, at midnight; end: null}.
C3_RestartAtMidnight ==
    [][ ( /\ props.isRange
          /\ last'.op = "selectDay"
          /\ kindOf(value) \in {"null", "empty", "complete"} )
        => value' = VRange(Dt(ExpectedDay(last'.d.day), 0), Null) ]_vars

\* C3 (amended): in range mode a pick made while the Selection is empty or
\* complete stores a start-only range whose start is on the picked day clamped
\* into the bounds and whose end is null, discarding the previous range; start
\* is at midnight whenever time selection is off or the stored TimeOfDay is empty.
C3_Restart ==
    [][ ( /\ props.isRange
          /\ last'.op = "selectDay"
          /\ kindOf(value) \in {"null", "empty", "complete"} )
        => /\ value'.shape = "range"
           /\ value'.start.k = "ok"
           /\ value'.start.day = ExpectedDay(last'.d.day)
           /\ value'.end = Null
           /\ (~props.enableTimeSelection \/ time.k # "hm") => value'.start.tod = 0 ]_vars

\* a complete range was replaced by a new start-only range
C3_Witness ==
    /\ props.isRange
    /\ last.op = "selectDay"
    /\ last.was = "complete"
    /\ kindOf(value) = "startOnly"
    /\ value.start.day = ExpectedDay(last.d.day)

---------------------------------------------------------------------------
(* C4 *)

\* C4: with bounds minDate <= maxDate, selectDay(d) with d before minDate leaves
\* the same state as selectDay(minDate), with d after maxDate the same state as
\* selectDay(maxDate), and with d inside the bounds stores d's own calendar day;
\* in every state selectDay returns, for every day, a Selection holding a valid
\* date on the clamped day (it never ends in an error), and the day it stores
\* lies within [minDate, maxDate].
C4_Clamping ==
    [][ /\ \A d \in Days, t \in InputTods :
               \E x \in StoredDates(selectDateNext(Dt(d, t))) : x.day = ExpectedDay(d)
        /\ last'.op = "selectDay" =>
             /\ (bounded /\ last'.d.day < props.minDate.day) => selectDate(props.minDate)
             /\ (bounded /\ last'.d.day > props.maxDate.day) => selectDate(props.maxDate)
             /\ (bounded /\ last'.d.day >= props.minDate.day
                         /\ last'.d.day <= props.maxDate.day) =>
                    \E x \in StoredDates(value') : x.day = last'.d.day
             /\ \E x \in StoredDates(value') :
                    /\ x.day = ExpectedDay(last'.d.day)
                    /\ bounded => /\ x.day >= props.minDate.day
                                  /\ x.day <= props.maxDate.day ]_vars

\* a day before minDate was picked and the Selection holds minDate's day
C4_Witness ==
    /\ bounded
    /\ last.op = "selectDay"
    /\ last.d.day < props.minDate.day
    /\ value.start.k = "ok"
    /\ value.start.day = props.minDate.day

---------------------------------------------------------------------------
(* C5 *)

\* C5: in single mode with time selection off, selectDay(d) sets the Selection to
\* d clamped into the bounds, at midnight; with closeOnSelect the widget is
\* closed afterwards, without it visibility is unchanged and no close is requested.
C5_SinglePick ==
    [][ ( /\ ~props.isRange
          /\ ~props.enableTimeSelection
          /\ last'.op = "selectDay" )
        => /\ value' = VDate(Dt(ExpectedDay(last'.d.day), 0))
           /\ IF props.closeOnSelect
              THEN ~isOpen' /\ ClosedRequested(notes')
              ELSE isOpen' = isOpen /\ ~ClosedRequested(notes') ]_vars

\* Open, then selectDay, ended closed with the picked day stored
C5_Witness ==
    /\ ~props.isRange
    /\ ~props.enableTimeSelection
    /\ props.closeOnSelect
    /\ last.op = "selectDay"
    /\ last.wasOpen
    /\ ~isOpen
    /\ value = VDate(Dt(ExpectedDay(last.d.day), 0))

---------------------------------------------------------------------------
(* C6 *)

---------------------------------------------------------------------------
(* C7 *)

\* C7: a step that closes the widget leaves TimeOfDay unchanged, and leaves the
\* Selection unchanged unless it is a pick closing on select, which leaves the
\* Selection it has just stored (holding the picked day).
C7_CloseKeepsSelection ==
    [][ (isOpen /\ ~isOpen')
        => /\ last'.op \in {"close", "toggle", "pointerDown", "escape",
                            "controlClick", "selectDay"}
           /\ time' = time
           /\ last'.op # "selectDay" => value' = value
           /\ last'.op = "selectDay" =>
                  /\ kindOf(value') \in {"date", "complete"}
                  /\ \E x \in StoredDates(value') : x.day = ExpectedDay(last'.d.day) ]_vars

\* an open widget holding a Selection was dismissed by an outside press
C7_Witness ==
    /\ last.op = "pointerDown"
    /\ last.t = "outside"
    /\ last.wasOpen
    /\ ~isOpen
    /\ last.was \in {"date", "complete"}
    /\ kindOf(value) = last.was

---------------------------------------------------------------------------
(* C8 *)

\* C8: while open, a pointer press outside the content panel and the trigger
\* requests close and calls no focus(); a press inside the content panel or
\* the trigger requests no close; while closed a press changes nothing and
\* notifies nobody.
C8_OutsidePress ==
    [][ last'.op = "pointerDown"
        => /\ (isOpen /\ last'.t = "outside") =>
                  /\ notes' = closeNotes
                  /\ ~isOpen'
                  /\ focus' = focus
           /\ last'.t \in {"content", "trigger"} =>
                  /\ ~ClosedRequested(notes')
                  /\ isOpen' = isOpen
           /\ ~isOpen =>
                  /\ notes' = <<>>
                  /\ UNCHANGED <<value, time, isOpen, view, lastHighlighted, focus>> ]_vars

\* an outside press dismissed the widget while a day cell kept focus
C8_Witness ==
    /\ last.op = "pointerDown"
    /\ last.t = "outside"
    /\ last.wasOpen
    /\ ~isOpen
    /\ notes = closeNotes
    /\ focus.el = "day"

---------------------------------------------------------------------------
(* C9 *)

\* C9: while open, an Escape key press inside the content region requests close
\* and then focuses the trigger; while closed an Escape key press changes nothing.
C9_Escape ==
    [][ last'.op = "escape"
        => /\ (isOpen /\ last'.t = "content") =>
                  /\ notes' = <<Note("close", VNull, VNull, ""),
                                Note("focus", VNull, VNull, "trigger")>>
                  /\ ~isOpen'
                  /\ focus' = El("trigger")
           /\ ~isOpen =>
                  /\ notes' = <<>>
                  /\ UNCHANGED <<value, time, isOpen, view, lastHighlighted, focus>> ]_vars

\* Escape closed an open widget and the trigger holds focus
C9_Witness ==
    /\ last.op = "escape"
    /\ last.t = "content"
    /\ last.wasOpen
    /\ ~isOpen
    /\ focus = El("trigger")

---------------------------------------------------------------------------
(* C10 *)

\* C10: clear() sets the Selection to null in single mode and to
\* {start: null, end: null} in range mode from any Selection, and leaves
\* visibility, TimeOfDay, ViewDate and FocusedDate unchanged.
C10_Clear ==
    [][ last'.op = "clear"
        => /\ value' = (IF props.isRange THEN VRange(Null, Null) ELSE VNull)
           /\ UNCHANGED <<isOpen, time, view, lastHighlighted>> ]_vars

\* a complete range was cleared while the widget was open
C10_Witness ==
    /\ last.op = "clear"
    /\ last.was = "complete"
    /\ isOpen
    /\ value = VRange(Null, Null)

---------------------------------------------------------------------------
(* C11 *)

\* minutes since midnight of a time string "HH:MM"
TodOf(t) == t.h * 60 + t.m

\* the dates a Selection holds (valid or not)
PresentDates(v) == {x \in {v.start, v.end} : x.k # "null"}

\* C11 (as claimed): after the time input delivers a valid "HH:MM" while a
\* Selection exists, TimeOfDay is "HH:MM" and every date present in the
\* Selection has hour HH and minute MM and the calendar day it had before.
C11_TimeApplied ==
    [][ ( /\ last'.op = "setTime"
          /\ last'.tm.k = "hm"
          /\ value.shape # "null" )
        => /\ time' = last'.tm
           /\ \A x \in PresentDates(value') : x.k = "ok" /\ x.tod = TodOf(last'.tm)
           /\ value.start.k # "null" =>
                  value'.start.k = "ok" /\ value'.start.day = value.start.day
           /\ value.end.k # "null" =>
                  value'.end.k = "ok" /\ value'.end.day = value.end.day ]_vars

\* a valid time was entered and the Selection still holds an Invalid Date
C11_Witness ==
    /\ last.op = "setTime"
    /\ last.tm.k = "hm"
    /\ time = last.tm
    /\ value.start.k = "nan"

---------------------------------------------------------------------------
(* C12 *)

\* C12 (as claimed): with time selection enabled and a stored "HH:MM", every date
\* a pick places into the Selection has hour HH and minute MM: the single date,
\* the new start of a range (also after clear()), and both dates of a
\* completed range (also when the picks were swapped into order).
C12_PickCarriesTime ==
    [][ ( /\ last'.op = "selectDay"
          /\ props.enableTimeSelection
          /\ time.k = "hm" )
        => \A x \in PresentDates(value') : x.k = "ok" /\ x.tod = TodOf(time) ]_vars

\* a pick after clear() stored a start at midnight although 14:30 is stored
C12_Witness ==
    /\ props.isRange
    /\ props.enableTimeSelection
    /\ time.k = "hm"
    /\ last.op = "selectDay"
    /\ last.was = "empty"
    /\ kindOf(value) = "startOnly"
    /\ value.start.k = "ok"
    /\ value.start.tod = 0

---------------------------------------------------------------------------
(* C13 *)

\* how many change notifications a step made
ChangeCount(ns) == Cardinality({i \in 1..Len(ns) : ns[i].n = "change"})

\* the Selection proposed by the step's setValue call, as the callback got it
Proposed(ns) == ns[CHOOSE i \in 1..Len(ns) : ns[i].n = "change"].w

\* C13: while the `value` prop is supplied the store's value is the supplied
\* object and no setValue call (clear, selectDay, the time input) replaces it;
\* a setValue call invokes the change callback exactly when the proposed value
\* is not identical to the current one (only null is identical to null: every
\* other proposed Selection is a new object), controlled or not; when
\* uncontrolled the value becomes the proposed one.
C13_Store ==
    [][ /\ (props.valueCtl /\ last'.op # "valueProp") =>
               /\ value'.shape = value.shape
               /\ value'.end = value.end
               /\ normalizeDate(value'.start) = normalizeDate(value.start)
               /\ last'.op # "selectDay" => value' = value
        /\ last'.op = "clear" =>
               ChangeCount(notes') = (IF value = VNull /\ ~props.isRange THEN 0 ELSE 1)
        /\ last'.op = "selectDay" => ChangeCount(notes') = 1
        /\ last'.op = "setTime" =>
               ChangeCount(notes') = (IF value = VNull THEN 0 ELSE 1)
        /\ (~props.valueCtl /\ last'.op \in {"clear", "selectDay", "setTime"}) =>
               IF ChangeCount(notes') = 1 THEN value' = Proposed(notes')
               ELSE value' = value ]_vars

\* a pick was notified while the supplied Selection stayed in place
C13_Witness ==
    /\ props.valueCtl
    /\ last.op = "selectDay"
    /\ ChangeCount(notes) = 1
    /\ value = VDate(Dt(BaseDay + 1, 14 * 60 + 30))
    /\ Proposed(notes) # value

---------------------------------------------------------------------------
(* C14 *)

\* the grid of the current state
weeks == getMonthDays(view, props.weekStartsOn)

\* the cells of a grid
Cells(grid) == LET g == grid IN {g[w][k] : w \in 1..6, k \in 1..7}

\* C14: the grid has exactly 6 weeks of 7 cells, the cells' dates are 42
\* consecutive calendar days at midnight, and the first cell's weekday is
\* weekStartsOn.
C14_Grid ==
    LET g == weeks
    IN  /\ DOMAIN g = 1..6
        /\ \A w \in 1..6 : DOMAIN g[w] = 1..7
        /\ \A w \in 1..6, k \in 1..7 :
               g[w][k].date = Dt(g[1][1].date.day + (w - 1) * 7 + (k - 1), 0)
        /\ Cardinality({c.date.day : c \in Cells(g)}) = 42
        /\ getDay(g[1][1].date) = props.weekStartsOn

\* a grid of a week starting on Wednesday whose first cell lies in the month
\* before the one displayed, reached by navigation
C14_Witness ==
    LET g == weeks
    IN  /\ props.weekStartsOn = 3
        /\ last.op = "gotoNextMonth"
        /\ getMonth(g[1][1].date) # getMonth(view)
        /\ getMonth(g[6][7].date) # getMonth(view)

---------------------------------------------------------------------------
(* C15 *)

\* C15: a cell is flagged isDisabled exactly when its day is before minDate's
\* day, after maxDate's day, or unavailable; the days of minDate and maxDate
\* are enabled whatever time of day the bounds carry.
C15_Disabled ==
    LET cells == Cells(weeks)
    IN  \A c \in cells :
            c.isDisabled <=>
                \/ props.minDate.k # "null" /\ c.date.day < props.minDate.day
                \/ props.maxDate.k # "null" /\ c.date.day > props.maxDate.day
                \/ c.date.day \in props.unavailable

\* a grid showing minDate's day enabled, the day before it disabled and an
\* unavailable day disabled, the bounds carrying 10:00
C15_Witness ==
    LET cells == Cells(weeks)
    IN  /\ props.minDate.k # "null"
        /\ props.minDate.tod # 0
        /\ last.op = "gotoPreviousMonth"
        /\ \E c \in cells : c.date.day = props.minDate.day /\ ~c.isDisabled
        /\ \E c \in cells : c.date.day = props.minDate.day - 1 /\ c.isDisabled
        /\ \E c \in cells : c.date.day \in props.unavailable /\ c.isDisabled

---------------------------------------------------------------------------
(* C16 *)

\* the displayed month counted in months: year * 12 + month index
monthNumber(date) == getFullYear(date) * 12 + getMonth(date)

\* C16: gotoNextMonth moves the displayed month and year to exactly the next
\* calendar month and gotoPreviousMonth to exactly the previous one, whatever
\* day of the month the view date carries.
C16_MonthStep ==
    [][/\ last'.op = "gotoNextMonth" => monthNumber(view') = monthNumber(view) + 1
       /\ last'.op = "gotoPreviousMonth" => monthNumber(view') = monthNumber(view) - 1]_vars

\* the view date sits on 31 March 2024 after ArrowLeft on the cell of 1 April,
\* and gotoNextMonth has displayed May
C16_Witness ==
    /\ last.op = "gotoNextMonth"
    /\ view = Dt(DaysFromCivil(2024, 4, 1), 0)
    /\ lastHighlighted = Dt(DaysFromCivil(2024, 2, 31), 0)

---------------------------------------------------------------------------
(* C17 *)

\* C17: after gotoMonth(index) the displayed month is index and the displayed
\* year is unchanged; after gotoYear(year) the displayed year is year and the
\* displayed month is unchanged, whatever day of the month the view date
\* carries.
C17_GotoMonthYear ==
    [][/\ last'.op = "gotoMonth" =>
              /\ getMonth(view') = last'.n
              /\ getFullYear(view') = getFullYear(view)
       /\ last'.op = "gotoYear" =>
              /\ getFullYear(view') = last'.n
              /\ getMonth(view') = getMonth(view)]_vars

\* gotoYear(2025) was called with the view date on 29 February 2024 and the
\* view date is now 1 March 2025
C17_Witness ==
    /\ last.op = "gotoYear"
    /\ last.n = 2025
    /\ lastHighlighted = Dt(DaysFromCivil(2024, 1, 29), 0)
    /\ view = Dt(DaysFromCivil(2025, 2, 1), 0)

---------------------------------------------------------------------------
(* C18 *)

\* the number of days an arrow key moves by
arrowStep(name) ==
    CASE name = "ArrowRight" -> 1
      [] name = "ArrowLeft" -> -1
      [] name = "ArrowDown" -> 7
      [] name = "ArrowUp" -> -7
      [] OTHER -> 0

ArrowNames == {"ArrowRight", "ArrowLeft", "ArrowDown", "ArrowUp"}

\* C18: an arrow key pressed on the focused day d sets the focused date to
\* d + 1, d - 1, d + 7 or d - 7 days, at midnight, across month and year ends.
C18_Arrows ==
    [][last'.op = "key" /\ last'.t \in ArrowNames =>
           /\ focus.el = "day"
           /\ last'.d = Dt(focus.day, 0)
           /\ lastHighlighted' = Dt(focus.day + arrowStep(last'.t), 0)]_vars

\* ArrowRight on the focused cell of 2024-03-31 made 2024-04-01 the focused
\* date and April 2024 the displayed month
C18_Witness ==
    /\ last.op = "key"
    /\ last.t = "ArrowRight"
    /\ last.d = Dt(DaysFromCivil(2024, 2, 31), 0)
    /\ lastHighlighted = Dt(DaysFromCivil(2024, 3, 1), 0)
    /\ getMonth(view) = 3
    /\ getFullYear(view) = 2024

---------------------------------------------------------------------------
(* C19 *)

\* C19: after a movement key the displayed month and year are those of the
\* new focused date, and the view date is unchanged when the new focused date
\* lies in the month that was displayed.
C19_ViewFollows ==
    [][last'.op = "key" =>
           /\ getMonth(view') = getMonth(lastHighlighted')
           /\ getFullYear(view') = getFullYear(lastHighlighted')
           /\ (/\ getMonth(lastHighlighted') = getMonth(view)
               /\ getFullYear(lastHighlighted') = getFullYear(view)) => view' = view]_vars

\* a key moved the focused date within the displayed month, away from the
\* view date's day, and the view date stayed
C19_Witness ==
    /\ last.op = "key"
    /\ last.t = "End"
    /\ lastHighlighted # last.d
    /\ getMonth(lastHighlighted) = getMonth(view)
    /\ lastHighlighted # view

---------------------------------------------------------------------------
(* C20 *)

\* C20: PageDown moves the focused date forward and PageUp backward, by one
\* month (28 to 31 days) without Shift and by twelve months (365 or 366 days)
\* with Shift.
C20_PageKeys ==
    [][last'.op = "key" =>
           /\ last'.t = "PageDown" => lastHighlighted'.day - focus.day \in 28..31
           /\ last'.t = "PageUp" => focus.day - lastHighlighted'.day \in 28..31
           /\ last'.t = "Shift+PageDown" => lastHighlighted'.day - focus.day \in 365..366
           /\ last'.t = "Shift+PageUp" => focus.day - lastHighlighted'.day \in 365..366]_vars

\* Shift+PageDown on the focused cell of 2024-03-31 made 2023-03-31 the
\* focused date
C20_Witness ==
    /\ last.op = "key"
    /\ last.t = "Shift+PageDown"
    /\ last.d = Dt(DaysFromCivil(2024, 2, 31), 0)
    /\ lastHighlighted = Dt(DaysFromCivil(2023, 2, 31), 0)

---------------------------------------------------------------------------
(* C21 *)

\* the rows of a grid that hold the day `d`
rowsOf(grid, d) == {w \in 1..6 : \E k \in 1..7 : grid[w][k].date.day = d}

\* C21: Home on the focused day d sets the focused date to the day in d-6..d
\* whose weekday is weekStartsOn, End to the day in d..d+6 whose weekday is
\* (weekStartsOn + 6) mod 7, and both lie in the row of d in the displayed grid.
C21_HomeEnd ==
    [][last'.op = "key" /\ last'.t \in {"Home", "End"} =>
           LET g == weeks
               d == focus.day
               r == lastHighlighted'
           IN  /\ focus.el = "day"
               /\ r.tod = 0
               /\ last'.t = "Home" =>
                      /\ r.day \in (d - 6) .. d
                      /\ getDay(r) = props.weekStartsOn
               /\ last'.t = "End" =>
                      /\ r.day \in d .. (d + 6)
                      /\ getDay(r) = (props.weekStartsOn + 6) % 7
               /\ rowsOf(g, d) # {}
               /\ rowsOf(g, r.day) = rowsOf(g, d)]_vars

\* with the week starting on Wednesday, End on the focused cell of Sunday
\* 2024-03-31 made Tuesday 2024-04-02 the focused date
C21_Witness ==
    /\ props.weekStartsOn = 3
    /\ last.op = "key"
    /\ last.t = "End"
    /\ last.d = Dt(DaysFromCivil(2024, 2, 31), 0)
    /\ lastHighlighted = Dt(DaysFromCivil(2024, 3, 2), 0)

---------------------------------------------------------------------------
(* C22 *)

\* C22: when the visibility changes from closed to open, the keyboard focus is
\* on the grid cell of the focused date, and the focused date is the day of the
\* Selection's anchor when the Selection has one.
C22_FocusOnOpen ==
    [][~isOpen /\ isOpen' =>
           /\ focus'.el = "day"
           /\ focus'.day = lastHighlighted'.day
           /\ anchorOf(value').k = "ok" =>
                  lastHighlighted'.day = anchorOf(value').day]_vars

\* the day before today was selected while no movement key was ever pressed;
\* on opening, the cell of today took the focus and became the focused date
C22_Witness ==
    /\ isOpen
    /\ last.op = "open"
    /\ ~last.wasOpen
    /\ value = VDate(Dt(BaseDay, 0))
    /\ focus = Cell(BaseDay + 1)
    /\ lastHighlighted = Dt(BaseDay + 1, 0)

---------------------------------------------------------------------------
(* C23 *)

\* C23: when the Selection changes to one with an anchor date, the view date
\* and the focused date both become the anchor's day; when it changes to an
\* empty Selection, both are left as they were.
C23_Resync ==
    [][value' # value =>
           /\ anchorOf(value').k = "ok" =>
                  /\ view' = normalizeDate(anchorOf(value'))
                  /\ lastHighlighted' = normalizeDate(anchorOf(value'))
           /\ anchorOf(value').k = "null" =>
                  /\ view' = view
                  /\ lastHighlighted' = lastHighlighted]_vars

\* an open widget whose Selection just became the day before today, with the
\* view date on that day and the focused date on today
C23_Witness ==
    /\ isOpen
    /\ last.op = "selectDay"
    /\ value = VDate(Dt(BaseDay, 0))
    /\ view = Dt(BaseDay, 0)
    /\ lastHighlighted = Dt(BaseDay + 1, 0)

---------------------------------------------------------------------------
(* C24 *)

\* a faulty variant of isInRange: the dates are compared with their time of
\* day
isInRangeByTime(day) ==
    /\ value.shape = "range"
    /\ props.isRange
    /\ value.start.k # "null"
    /\ value.end.k # "null"
    /\ day.k = "ok"
    /\ value.start.k = "ok"
    /\ value.end.k = "ok"
    /\ ~DateLt(day, value.start)
    /\ ~DateLt(value.end, day)

\* isInRange(day) of the engine
isInRange(day) ==
    LET date == normalizeDate(day)
    IN  /\ value.shape # "null"
        /\ date.k # "null"
        /\ props.isRange
        /\ isDateRange(value)
        /\ value.start.k # "null"
        /\ value.end.k # "null"
        /\ ~compareDay(value.start, date).nan
        /\ compareDay(value.start, date).n <= 0
        /\ ~compareDay(date, value.end).nan
        /\ compareDay(date, value.end).n <= 0

\* the days isInRange is asked about: the days of the model, the day before
\* and the day after them, at each time of day a caller passes
QueryDates == {Dt(d, t) : d \in (BaseDay - 1) .. (BaseDay + MaxDays), t \in InputTods}

\* C24: isInRange(day) is true exactly when the engine is in range mode, start
\* and end are both set, and start's day <= day's day <= end's day.
C24_InRange ==
    \A day \in QueryDates :
        isInRange(day) <=>
            /\ props.isRange
            /\ value.shape = "range"
            /\ value.start.k = "ok"
            /\ value.end.k = "ok"
            /\ value.start.day <= day.day
            /\ day.day <= value.end.day

\* a complete range from 2024-03-30 to 2024-04-01 whose end carries a time of
\* day: its two ends and the day between are in range, the day before is not
C24_Witness ==
    /\ value.shape = "range"
    /\ value.start.k = "ok"
    /\ value.end.k = "ok"
    /\ value.start.day = BaseDay
    /\ value.end.day = BaseDay + 2
    /\ value.end.tod # 0
    /\ isInRange(Dt(BaseDay, 0))
    /\ isInRange(Dt(BaseDay + 1, 10 * 60))
    /\ isInRange(Dt(BaseDay + 2, 0))
    /\ ~isInRange(Dt(BaseDay - 1, 0))

---------------------------------------------------------------------------
(* C25 *)

\* what useContext(DatePickerContext) yields: undefined without a provider,
\* the provider's value (the engine, here its state snapshot) inside one
Undefined == [k |-> "undefined", value |-> VNull, isOpen |-> FALSE, focusedDate |-> Null]
Provided ==
    [k |-> "engine", value |-> value, isOpen |-> isOpen, focusedDate |-> lastHighlighted]

\* a faulty variant of useDatePickerContext: the context is returned unchecked
useContextOnly(componentName, context) ==
    [threw |-> FALSE, message |-> "", context |-> context]

\* useDatePickerContext(componentName) over the context of the calling
\* component: the Error it throws or the context it returns
useDatePickerContext(componentName, context) ==
    IF context.k = "undefined"
    THEN [threw |-> TRUE,
          message |-> componentName \o " must be used within a DatePickerProvider",
          context |-> Undefined]
    ELSE [threw |-> FALSE, message |-> "", context |-> context]

\* the names the components pass; "DatePicker" is the parameter's default
ComponentNames == {"DatePicker", "DatePickerDay", "DatePickerTimeField"}

\* a component renders and reads the context, inside a provider or not; the
\* outcome is recorded in notes, last.n tells whether a provider was there
ReadContext(componentName, inProvider) ==
    LET r == useDatePickerContext(componentName,
                                  IF inProvider THEN Provided ELSE Undefined)
    IN  /\ last' = [Last("useDatePickerContext", Null, componentName, TNull)
                       EXCEPT !.n = IF inProvider THEN 1 ELSE 0]
        /\ notes' = <<IF r.threw
                      THEN Note("throw", VNull, VNull, r.message)
                      ELSE Note("context", r.context.value, VNull, r.context.k)>>
        /\ UNCHANGED <<props, value, time, isOpen, view, lastHighlighted,
                       focusedDateRef, focus, moves, rendered>>

NextContext ==
    \/ \E d \in Days, t \in InputTods : SelectDate(Dt(d, t))
    \/ Clear
    \/ Open
    \/ Close
    \/ \E componentName \in ComponentNames, inProvider \in BOOLEAN :
           ReadContext(componentName, inProvider)

SpecContext == Init /\ [][NextContext]_vars

\* C25: a read of the engine context without a provider throws an error that
\* names the calling component and returns nothing; inside a provider it
\* returns the provided engine.
C25_Context ==
    last.op = "useDatePickerContext" =>
        /\ Len(notes) = 1
        /\ last.n = 0 =>
               /\ notes[1].n = "throw"
               /\ notes[1].el = last.t \o " must be used within a DatePickerProvider"
        /\ last.n = 1 =>
               /\ notes[1].n = "context"
               /\ notes[1].el = "engine"
               /\ notes[1].v = value

\* DatePickerDay read the context without a provider, beside an engine that
\* holds a Selection, and the read threw
C25_Witness ==
    /\ last.op = "useDatePickerContext"
    /\ last.t = "DatePickerDay"
    /\ last.n = 0
    /\ value # VNull
    /\ notes[1].n = "throw"

---------------------------------------------------------------------------
(* C26 *)

\* C26: a start-only range stays start-only, on the same start day, through
\* every operation other than selectDay and clear.
C26_StartOnlyPersists ==
    [][kindOf(value) = "startOnly" /\ last'.op \notin {"selectDay", "clear"} =>
           /\ kindOf(value') = "startOnly"
           /\ value'.start.k = "ok"
           /\ value'.start.day = value.start.day]_vars

\* the time input was changed to 14:30 on a start-only range, and the range is
\* now complete with its end on the start's day
C26_Witness ==
    /\ last.op = "setTime"
    /\ last.was = "startOnly"
    /\ kindOf(value) = "complete"
    /\ value.start = Dt(BaseDay, 14 * 60 + 30)
    /\ value.end = value.start

---------------------------------------------------------------------------
(* C27 *)

\* C27: no render shows a Selection whose anchor lies in another month or
\* year than the view date's, or on another day than the focused date: the
\* render committed after a Selection update already shows the resynced view
\* date and focused date.
C27_NoStaleRender ==
    anchorOf(rendered.value).k = "ok" /\ last.op \in {"selectDay", "setTime"} =>
        /\ getMonth(rendered.view) = getMonth(anchorOf(rendered.value))
        /\ getFullYear(rendered.view) = getFullYear(anchorOf(rendered.value))
        /\ rendered.focusedDate.day = anchorOf(rendered.value).day

\* 1 April 2024 was selected in the open widget while March was displayed:
\* the render committed before the effects showed the new Selection in the
\* grid of March, and the view date is on April now
C27_Witness ==
    /\ last.op = "selectDay"
    /\ last.wasOpen
    /\ isOpen
    /\ rendered.value = VDate(Dt(BaseDay + 2, 0))
    /\ getMonth(rendered.view) = 2
    /\ value = rendered.value
    /\ getMonth(view) = 3

---------------------------------------------------------------------------
(* C28 *)

\* an object with its identity: the object the store holds or a proposed one
Obj(id, v) == [id |-> id, v |-> v]

\* Object.is on such objects: the same object, or null against null
ObjectIs(a, b) == a.id = b.id \/ (a.v = VNull /\ b.v = VNull)

\* one setValue(next) call of useControllableState on a store whose valueRef
\* holds store.ref: the uncontrolled store writes valueRef (line 1014), the
\* controlled one does not; onChange fires unless Object.is(previous, next)
setValueOnce(store, next) ==
    [ref |-> IF props.valueCtl THEN store.ref ELSE next,
     notes |-> store.notes \o (IF ObjectIs(store.ref, next) THEN <<>>
                               ELSE <<Note("change", next.v, next.v, "")>>)]

\* the store after setValue(x) was called twice with the same object before a
\* re-render refreshed valueRef
setValueTwice(x) ==
    LET store == [ref |-> Obj("current", value), notes |-> <<>>]
        next == Obj("next", x)
    IN  setValueOnce(setValueOnce(store, next), next)

\* a caller invokes setValue(x) twice within one render
SetValueTwice(x) ==
    /\ suppliedFits(x)
    /\ value' = (IF props.valueCtl THEN value ELSE setValueTwice(x).ref.v)
    /\ last' = Last("setValueTwice", Null, "", TNull)
    /\ UNCHANGED <<props, moves, time, isOpen, focusedDateRef>>
    /\ Render(lastHighlighted, view, focus, setValueTwice(x).notes,
              ~props.valueCtl /\ ~ObjectIs(Obj("current", value), Obj("next", x)),
              FALSE)

NextStore ==
    \/ \E d \in Days, t \in InputTods : SelectDate(Dt(d, t))
    \/ Clear
    \/ \E v \in SuppliedValues : ValuePropUpdate(v)
    \/ \E x \in SuppliedValues : SetValueTwice(x)

SpecStore == InitCtl /\ [][NextStore]_vars

\* C28: two setValue(x) calls with the same x during one render fire the
\* change callback at most once, controlled or not.
C28_NoDuplicate ==
    last.op = "setValueTwice" => ChangeCount(notes) <= 1

\* a controlled store whose setValue was called twice with the same object
\* called onChange twice
C28_Witness ==
    /\ last.op = "setValueTwice"
    /\ props.valueCtl
    /\ ChangeCount(notes) = 2
    /\ notes[1] = notes[2]

---------------------------------------------------------------------------
(* C29 *)

\* C29: with time selection enabled and a stored time, the Selection handed to
\* the change callback by selectDay is, when the callback runs, what it is when
\* the handler has returned: no hour or minute is applied after the callback.
C29_TimeBeforeNotify ==
    last.op = "selectDay" /\ props.enableTimeSelection /\ TimeTruthy(time) =>
        \A i \in 1..Len(notes) :
            notes[i].n = "change" => notes[i].v = notes[i].w

\* in range mode with 14:30 stored, selectDay(2024-03-30) notified the range
\* with its start at 00:00 and set the start to 14:30 afterwards
C29_Witness ==
    /\ last.op = "selectDay"
    /\ props.isRange
    /\ time = THM(14, 30)
    /\ Len(notes) >= 1
    /\ notes[1].n = "change"
    /\ notes[1].v = VRange(Dt(BaseDay, 0), Null)
    /\ notes[1].w = VRange(Dt(BaseDay, 14 * 60 + 30), Null)
    /\ value = notes[1].w

---------------------------------------------------------------------------
(* C30 *)

\* the parent re-renders the widget with another `isOpen` prop: the
\* disclosure mirrors it
OpenPropUpdate(open) ==
    /\ props.openCtl
    /\ open # isOpen
    /\ isOpen' = open
    /\ last' = Last("openProp", Null, "", TNull)
    /\ UNCHANGED <<props, moves, value, time, focusedDateRef>>
    /\ Render(lastHighlighted, view, focus, <<>>, FALSE, FALSE)

\* single-date engines, with the `isOpen` prop supplied or not
DisclosureConfigs ==
    {c \in Configs : /\ ConfigOk(c)
                     /\ ~c.valueCtl
                     /\ ~c.isRange
                     /\ ~c.enableTimeSelection
                     /\ c.minDate.k = "null"}

InitDisclosure ==
    /\ props \in DisclosureConfigs
    /\ value = VNull
    /\ time = TNull
    /\ isOpen \in (IF props.openCtl THEN BOOLEAN ELSE {FALSE})
    /\ view = normalizeDate(Today)
    /\ lastHighlighted = normalizeDate(Today)
    /\ focusedDateRef = normalizeDate(Today)
    /\ focus = Body
    /\ notes = <<>>
    /\ last = [op |-> "init", d |-> Null, t |-> "", tm |-> TNull,
               wasOpen |-> FALSE, was |-> "null", n |-> 0]
    /\ moves = 0
    /\ rendered = Snapshot(value, view, lastHighlighted)

NextDisclosure ==
    \/ Open
    \/ Close
    \/ Toggle
    \/ \E open \in BOOLEAN : OpenPropUpdate(open)
    \/ \E d \in Days, t \in InputTods : SelectDate(Dt(d, t))

SpecDisclosure == InitDisclosure /\ [][NextDisclosure]_vars

\* how many callbacks named `name` a step made
NoteCount(ns, name) == Cardinality({i \in 1..Len(ns) : ns[i].n = name})

---------------------------------------------------------------------------
(* C31 *)

\* C31: in every reachable state the view date is day 1 of its month, at
\* midnight.
C31_ViewFirstOfMonth ==
    /\ view.k = "ok"
    /\ getDate(view) = 1
    /\ view.tod = 0

\* 30 March 2024 was selected and the resync has put the view date on the
\* 30th
C31_Witness ==
    /\ last.op = "selectDay"
    /\ value = VDate(Dt(BaseDay, 0))
    /\ view = Dt(BaseDay, 0)
    /\ getDate(view) = 30

---------------------------------------------------------------------------
(* C32 *)

\* the dates a Selection holds, valid or not
HeldDates(v) == {x \in {v.start, v.end} : x.k # "null"}

\* C32: a time string that is empty or not HH:MM, given while a Selection
\* exists, leaves the Selection unchanged or holding valid dates only.
C32_SetTimeTotal ==
    [][last'.op = "setTime" /\ last'.tm.k # "hm" /\ HeldDates(value) # {} =>
           \/ value' = value
           \/ \A x \in HeldDates(value') : x.k = "ok"]_vars

\* the time input was emptied while 30 March 2024 was selected, and the
\* Selection is an Invalid Date now
C32_Witness ==
    /\ last.op = "setTime"
    /\ last.tm = TEmpty
    /\ last.was = "date"
    /\ value = VDate(Inv)

---------------------------------------------------------------------------
(* C33 *)

\* engines without bounds and without time selection whose isDateUnavailable
\* predicate holds of 31 March 2024
AvailConfigs ==
    {[c EXCEPT !.unavailable = {BaseDay + 1}] :
        c \in {x \in Configs : /\ ConfigOk(x)
                               /\ Uncontrolled(x)
                               /\ x.minDate.k = "null"
                               /\ ~x.enableTimeSelection}}

InitAvail ==
    /\ props \in AvailConfigs
    /\ value = VNull
    /\ time = TNull
    /\ isOpen = FALSE
    /\ view = normalizeDate(Today)
    /\ lastHighlighted = normalizeDate(Today)
    /\ focusedDateRef = normalizeDate(Today)
    /\ focus = Body
    /\ notes = <<>>
    /\ last = [op |-> "init", d |-> Null, t |-> "", tm |-> TNull,
               wasOpen |-> FALSE, was |-> "null", n |-> 0]
    /\ moves = 0
    /\ rendered = Snapshot(value, view, lastHighlighted)

NextAvail ==
    \/ \E d \in Days, t \in InputTods : SelectDate(Dt(d, t))
    \/ Clear
    \/ Open
    \/ Close
    \/ Toggle

SpecAvail == InitAvail /\ [][NextAvail]_vars

---------------------------------------------------------------------------
(* C34 *)

\* the days of the month of `date`
monthDays(date) ==
    DaysFromCivil(getFullYear(date), getMonth(date), 1) ..
        (DaysFromCivil(getFullYear(date) + ((getMonth(date) + 1) \div 12),
                       (getMonth(date) + 1) % 12, 1) - 1)

\* C34: every day of the viewed month is the date of exactly one cell of the
\* grid, flagged isCurrentMonth, and every other cell is not flagged.
C34_CurrentMonth ==
    \A g \in {weeks} : \A days \in {monthDays(view)} :
        /\ \A d \in days :
               Cardinality({p \in (1..6) \X (1..7) : g[p[1]][p[2]].date.day = d}) = 1
        /\ \A p \in (1..6) \X (1..7) :
               g[p[1]][p[2]].isCurrentMonth <=> g[p[1]][p[2]].date.day \in days

\* the grid of February 2024 with the week starting on Sunday: it leads with
\* days of January, holds the 29th, and trails with days of March
C34_Witness ==
    LET g == weeks
    IN  /\ getMonth(view) = 1
        /\ getFullYear(view) = 2024
        /\ last.op \in {"gotoMonth", "gotoPreviousMonth", "key"}
        /\ ~g[1][1].isCurrentMonth
        /\ ~g[6][7].isCurrentMonth
        /\ \E w \in 1..6, k \in 1..7 :
               g[w][k].isCurrentMonth /\ getDate(g[w][k].date) = 29

---------------------------------------------------------------------------
(* C35 *)

\* C35: while the widget is open, after a movement key the keyboard focus is
\* on the grid cell of the new focused date.
C35_FocusFollowsKey ==
    [][isOpen /\ last'.op = "key" => focus' = Cell(lastHighlighted'.day)]_vars

\* after two key presses the keyboard focus is still on the cell the key was
\* pressed on, one day before the focused date, in the same displayed month
C35_Witness ==
    /\ isOpen
    /\ moves = 2
    /\ last.op = "key"
    /\ last.t = "ArrowRight"
    /\ focus = Cell(last.d.day)
    /\ lastHighlighted = Dt(last.d.day + 1, 0)
    /\ getMonth(lastHighlighted) = getMonth(view)

---------------------------------------------------------------------------
(* C36 *)

\* the focus effect (lines 1200-1206) after a render in which isOpen went from
\* `was` to `now` while the element f held the focus and hl was highlighted;
\* the cell's onFocus handler (line 1129) sets lastHighlighted
effectFocus(was, now, f, hl) ==
    LET cell == Cell(focusedDateRef.day)
        try == now /\ now # was /\ cellFocusable(focusedDateRef, view)
    IN  [f |-> IF try THEN cell ELSE f,
         hl |-> IF try /\ f # cell THEN Dt(focusedDateRef.day, 0) ELSE hl,
         ns |-> IF try THEN <<Note("focus", VNull, VNull, "day")>> ELSE <<>>]

\* a pointer click on the text input, in the default composition (DatePicker.tsx
\* lines 405-415): the pointerdown reaches useOutsideClick's listener while the
\* widget is open, the input takes the focus unless it has it (onFocus, lines
\* 1065-1067), the widget re-renders, and the click bubbles to the control
\* surface's onClick of that render (lines 1043-1049)
InputClick ==
    LET dismissed == outsideClickCloses("outside")
        o1 == IF dismissed THEN closeState ELSE isOpen
        opens == focus # El("input") /\ props.openOnFocus
        o2 == IF opens THEN openState ELSE o1
        e2 == effectFocus(o1, o2, El("input"), lastHighlighted)
        o3 == IF o2 THEN closeState ELSE openState
        e3 == effectFocus(o2, o3, e2.f, e2.hl)
    IN  /\ isOpen' = o3
        /\ focus' = e3.f
        /\ lastHighlighted' = e3.hl
        /\ notes' = (IF dismissed THEN closeNotes ELSE <<>>)
                        \o (IF opens THEN openNotes ELSE <<>>) \o e2.ns
                        \o (IF o2 THEN closeNotes ELSE openNotes) \o e3.ns
        /\ rendered' = Snapshot(value, view, e2.hl)
        /\ last' = Last("inputClick", Null, "", TNull)
        /\ UNCHANGED <<props, moves, value, time, focusedDateRef, view>>

\* a pointer click on the trigger, which sits inside the control surface
\* (DatePicker.tsx lines 405-415): the pointerdown is exempt from the outside
\* dismissal (line 1025), the button may take the focus, then the trigger's
\* onClick (line 1082) and the control surface's onClick (lines 1043-1049) of
\* the same render run for the one click event
TriggerClick(takesFocus) ==
    /\ isOpen' = (IF isOpen THEN closeState ELSE openState)
    /\ last' = Last("triggerClick", Null, "", TNull)
    /\ UNCHANGED <<props, moves, value, time, focusedDateRef>>
    /\ Render(lastHighlighted, view,
              IF takesFocus THEN El("trigger") ELSE focus,
              (IF isOpen THEN closeNotes ELSE openNotes)
                  \o (IF isOpen THEN closeNotes ELSE openNotes),
              FALSE, FALSE)

\* single-date widgets in the default composition, with and without openOnFocus
GestureConfigs ==
    {[c EXCEPT !.openOnFocus = b] :
        c \in {x \in Configs : /\ ConfigOk(x)
                               /\ ~x.valueCtl
                               /\ ~x.isRange
                               /\ ~x.enableTimeSelection
                               /\ x.minDate.k = "null"},
        b \in BOOLEAN}

InitGesture ==
    /\ props \in GestureConfigs
    /\ value = VNull
    /\ time = TNull
    /\ isOpen = FALSE
    /\ view = normalizeDate(Today)
    /\ lastHighlighted = normalizeDate(Today)
    /\ focusedDateRef = normalizeDate(Today)
    /\ focus = Body
    /\ notes = <<>>
    /\ last = [op |-> "init", d |-> Null, t |-> "", tm |-> TNull,
               wasOpen |-> FALSE, was |-> "null", n |-> 0]
    /\ moves = 0
    /\ rendered = Snapshot(value, view, lastHighlighted)

NextGesture ==
    \/ InputClick
    \/ \E takesFocus \in BOOLEAN : TriggerClick(takesFocus)
    \/ ControlClick
    \/ InputFocus
    \/ \E target \in Targets : PointerDown(target)
    \/ \E where \in {"content", "elsewhere"} : EscapeKeyDown(where)
    \/ \E d \in Days, t \in InputTods : SelectDate(Dt(d, t))

SpecGesture == InitGesture /\ [][NextGesture]_vars

\* C36: with openOnFocus, a pointer click on the unfocused text input of a
\* closed widget that owns its visibility leaves the widget open.
C36_InputClickOpens ==
    [][/\ props.openOnFocus
       /\ ~props.openCtl
       /\ ~isOpen
       /\ focus # El("input")
       /\ last'.op = "inputClick"
       => isOpen']_vars

\* the click on the unfocused input of the closed widget has run: the focus
\* event opened the widget, the click event closed it again
C36_Witness ==
    /\ props.openOnFocus
    /\ ~props.openCtl
    /\ last.op = "inputClick"
    /\ ~last.wasOpen
    /\ NoteCount(notes, "open") = 1
    /\ NoteCount(notes, "close") = 1
    /\ ~isOpen

---------------------------------------------------------------------------
(* C37 *)

\* C37: one click on the trigger of a widget that owns its visibility flips the
\* visibility once and fires exactly one open or close notification.
C37_TriggerClickOnce ==
    [][~props.openCtl /\ last'.op = "triggerClick"
       => /\ isOpen' = ~isOpen
          /\ NoteCount(notes', "open") + NoteCount(notes', "close") = 1]_vars

\* a click on the trigger of the closed widget has opened it, and both click
\* handlers have fired the open notification
C37_Witness ==
    /\ ~props.openCtl
    /\ last.op = "triggerClick"
    /\ ~last.wasOpen
    /\ isOpen
    /\ NoteCount(notes, "open") = 2
    /\ NoteCount(notes, "close") = 0

---------------------------------------------------------------------------
(* C38 *)

\* the header navigation and the movement keys, as `last.op` names them
NavigationOps == {"gotoPreviousMonth", "gotoNextMonth", "gotoMonth", "gotoYear", "key"}

\* C38: gotoPreviousMonth, gotoNextMonth, gotoMonth, gotoYear and the movement
\* keys leave Selection, TimeOfDay and visibility alone and fire no change,
\* time-change, open or close notification.
C38_NavigationOnlyMoves ==
    [][last'.op \in NavigationOps
       => /\ value' = value
          /\ time' = time
          /\ isOpen' = isOpen
          /\ \A i \in 1..Len(notes') :
                notes'[i].n \notin {"change", "time", "open", "close"}]_vars

\* a movement key has moved the focused date to another month of an open widget
\* that holds a selected day
C38_Witness ==
    /\ isOpen
    /\ last.op = "key"
    /\ value.shape # "null"
    /\ lastHighlighted # Dt(last.d.day, 0)
    /\ getMonth(view) # getMonth(last.d)

---------------------------------------------------------------------------
(* C39 *)

\* C39: clear() on an empty Selection (null in single mode, {start: null,
\* end: null} in range mode) fires no change notification.
C39_ClearEmptySilent ==
    /\ last.op = "clear"
    /\ \/ ~props.isRange /\ last.was = "null"
       \/ props.isRange /\ last.was = "empty"
    => ChangeCount(notes) = 0

\* clear() has run on the empty range of a range-mode widget and has fired a
\* change notification with a new empty range
C39_Witness ==
    /\ props.isRange
    /\ last.op = "clear"
    /\ last.was = "empty"
    /\ value = VRange(Null, Null)
    /\ ChangeCount(notes) = 1
    /\ Proposed(notes) = VRange(Null, Null)

====
